---- MODULE Spec2Model ----
(***************************************************************************)
(* Visitor lifecycle and QR sign-out protocol of the Visitor Management    *)
(* API (src/routes/visitors.js over the single MySQL connection of         *)
(* src/db.js).                                                             *)
(*                                                                         *)
(* Strings that the code formats or parses (route parameters, the text put *)
(* in the QR code) are sequences of one-character strings.  The database   *)
(* connection runs one statement at a time in FIFO order; a handler that   *)
(* calls db.query only enqueues, the statement runs in DbExec and the      *)
(* handler's callback runs in DbCallback.                                  *)
(***************************************************************************)
EXTENDS Integers, Sequences, FiniteSets

\* ------------------------------------------------------------------ bounds
MaxRows == 2        \* rows the visitors table may hold
MaxInFlight == 2    \* requests being served at the same time
QrCapacity == 46    \* characters one QR symbol holds (scaled down)
MaxTokenId == 120   \* ids the token round trip is evaluated on

NULL == "NULL"
Details == {"d1", "d2"}      \* values of the twelve descriptive columns
Files == {"f1"}              \* stored upload file names
DefaultDetails == "d1"       \* the body every request of Spec carries

\* ----------------------------------------------------------- text helpers
Digits == <<"0", "1", "2", "3", "4", "5", "6", "7", "8", "9">>

IsDigit(c) == \E d \in 1..10 : Digits[d] = c

DigitValue(c) == (CHOOSE d \in 1..10 : Digits[d] = c) - 1

\* `${n}` of a non-negative integer: its decimal digits
RECURSIVE DecimalString(_)
DecimalString(n) ==
  IF n < 10 THEN <<Digits[n + 1]>>
  ELSE DecimalString(n \div 10) \o <<Digits[(n % 10) + 1]>>

\* MySQL's comparison of an integer column with a string parameter: the
\* string is read as a number, i.e. its longest leading run of digits (0 when
\* there is none).
RECURSIVE SqlNumber(_, _)
SqlNumber(s, acc) ==
  IF s = <<>> \/ ~IsDigit(Head(s)) THEN acc
  ELSE SqlNumber(Tail(s), (acc * 10) + DigitValue(Head(s)))

SqlToNumber(s) == SqlNumber(s, 0)

\* "http://localhost:3001/api/visitors/signout/"
SignoutUrlPrefix ==
  <<"h", "t", "t", "p", ":", "/", "/",
    "l", "o", "c", "a", "l", "h", "o", "s", "t", ":", "3", "0", "0", "1",
    "/", "a", "p", "i",
    "/", "v", "i", "s", "i", "t", "o", "r", "s",
    "/", "s", "i", "g", "n", "o", "u", "t", "/">>

\* mutant: the id is passed as a query parameter, .../signout/?id=${id}
QrText_QueryId(id) == SignoutUrlPrefix \o <<"?", "i", "d", "=">> \o id

\* qrText = `http://localhost:3001/api/visitors/signout/${id}`
QrText(id) == SignoutUrlPrefix \o id

\* QRCode.toDataURL succeeds when the text fits in one QR symbol
EncodeOk(text) == Len(text) <= QrCapacity

\* the data URL of the QR image of a text (the image carries the text)
ToDataURL(text) == <<"data:image/png">> \o text

\* what a scanner reads back from the image
ScanDataURL(qr) == Tail(qr)

\* the path segments of a URL: the pieces between "/" characters
RECURSIVE SplitSegments(_, _)
SplitSegments(s, cur) ==
  IF s = <<>> THEN <<cur>>
  ELSE IF Head(s) = "/" THEN <<cur>> \o SplitSegments(Tail(s), <<>>)
  ELSE SplitSegments(Tail(s), Append(cur, Head(s)))

Segments(url) == SplitSegments(url, <<>>)

SignoutSegment == <<"s", "i", "g", "n", "o", "u", "t">>

\* the id a redemption URL carries: its final path segment, provided the
\* segment before it is "signout" (route '/signout/:id')
TokenId(url) ==
  LET segs == Segments(url)
      n == Len(segs)
  IN IF n >= 2 /\ segs[n - 1] = SignoutSegment THEN segs[n] ELSE <<"?">>

\* --------------------------------------------------------- request inputs
\* an id too long for its redemption URL to fit in a QR symbol
LongId == [i \in 1..((QrCapacity - Len(SignoutUrlPrefix)) + 1) |-> "9"]

\* req.params.id values: the ids the table can come to hold (an id names no
\* row until the row is created)
ParamIds == {DecimalString(i) : i \in 1..MaxRows}

CardIds == ParamIds \cup {LongId}

\* ------------------------------------------------------------------ state
VARIABLES
  visitors,   \* table visitors: id -> row
  nextId,     \* AUTO_INCREMENT counter of visitors.id
  dbQueue,    \* db.query calls waiting on the connection, head first
  encoding,   \* QRCode.toDataURL calls whose result is awaited
  done,       \* the call that completed in the last step, with its outcome
  sent,       \* the response written by the last step, if any
  request,    \* the HTTP request whose routing is looked at
  routed,     \* the handler the application's route table gives it
  guard       \* what verifyToken did with it

vars == <<visitors, nextId, dbQueue, encoding, done, sent, request, routed, guard>>

\* the variables of request routing
httpVars == <<request, routed, guard>>

NoResponse == [code |-> 0, kind |-> "none", text |-> <<>>, num |-> 0]

\* res.status(code) with a body: a message, a page or QR text, a visitorId
Response(code, kind, text, num) ==
  [code |-> code, kind |-> kind, text |-> text, num |-> num]

NoResult == [affectedRows |-> 0, changedRows |-> 0, insertId |-> 0]

\* the (err, result) a completed call hands to its callback
Outcome(op, id, err, result) ==
  [op |-> op, id |-> id, err |-> err,
   affectedRows |-> result.affectedRows, changedRows |-> result.changedRows,
   insertId |-> result.insertId]

NoneDone == Outcome("none", <<>>, FALSE, NoResult)

\* the values a handler binds to its INSERT or UPDATE
Values(details, image) == [details |-> details, image |-> image]

InFlight == Len(dbQueue) + Cardinality(encoding)

\* column defaults of table visitors for the columns INSERT does not name
QrStatusDefault == "unused"

StatusDefault == 1

\* NOT of a MySQL boolean-like integer
SqlNot(x) == IF x = 0 THEN 1 ELSE 0

\* mutant: the WHERE clause is missing, every row is matched
MatchingIds_All(id) == DOMAIN visitors

\* mutant: the WHERE clause is lost when the id matches no row
MatchingIds_Unfiltered(id) ==
  IF \E v \in DOMAIN visitors : v = SqlToNumber(id)
  THEN {v \in DOMAIN visitors : v = SqlToNumber(id)}
  ELSE DOMAIN visitors

\* rows matched by WHERE id = ?
MatchingIds(id) == {v \in DOMAIN visitors : v = SqlToNumber(id)}

\* mutant: the INSERT names qr_status and supplies 'used'
InsertRow_Used(vals) ==
  [qr_status |-> "used", status |-> StatusDefault,
   details |-> vals.details, image |-> vals.image]

\* the row INSERT INTO visitors (first_name, ..., address, image) creates
InsertRow(vals) ==
  [qr_status |-> QrStatusDefault, status |-> StatusDefault,
   details |-> vals.details, image |-> vals.image]

\* mutant: the UPDATE always sets image, to NULL when no file was uploaded
UpdateRow_ClearsImage(row, vals) ==
  [row EXCEPT !.details = vals.details, !.image = vals.image]

\* mutant: the UPDATE also resets qr_status
UpdateRow_ResetsQr(row, vals) ==
  [row EXCEPT !.details = vals.details,
              !.image = IF vals.image # NULL THEN vals.image ELSE @,
              !.qr_status = "unused"]

\* UPDATE visitors SET first_name = ?, ..., address = ? [, image = ?]
UpdateRow(row, vals) ==
  [row EXCEPT !.details = vals.details,
              !.image = IF vals.image # NULL THEN vals.image ELSE @]

\* mutant: the toggle statement writes the whole row back from a default
ToggleRow_LosesRedeem(row) == [row EXCEPT !.status = SqlNot(@), !.qr_status = "unused"]

\* mutant: the statement clears status instead of negating it
ToggleRow_Clear(row) == [row EXCEPT !.status = 0]

\* UPDATE visitors SET status = NOT status
ToggleRow(row) == [row EXCEPT !.status = SqlNot(@)]

\* mutant: redemption is guarded by the checked-in flag
SignoutRow_OnlyCheckedIn(row) ==
  IF row.status = 1 THEN [row EXCEPT !.qr_status = "used"] ELSE row

\* mutant: redemption also checks the visitor out
SignoutRow_ChecksOut(row) == [row EXCEPT !.qr_status = "used", !.status = 0]

\* UPDATE visitors SET qr_status = 'used'
SignoutRow(row) == [row EXCEPT !.qr_status = "used"]

\* the row a statement leaves in place of a matched row
StatementRow(row, op, vals) ==
  CASE op = "update" -> UpdateRow(row, vals)
    [] op = "toggle" -> ToggleRow(row)
    [] op = "signout" -> SignoutRow(row)

\* no request has been routed yet
NoRequest == [method |-> "none", path |-> <<>>, auth |-> <<>>]

NotRouted == "not routed"

\* verifyToken has not been called
NotCalled == [outcome |-> "none", status |-> 0, message |-> "", readHeader |-> FALSE]

Init ==
  /\ visitors = <<>>
  /\ nextId = 1
  /\ dbQueue = <<>>
  /\ encoding = {}
  /\ done = NoneDone
  /\ sent = NoResponse
  /\ request = NoRequest
  /\ routed = NotRouted
  /\ guard = NotCalled

\* db.query(sql, values, callback): the call joins the connection's queue
Enqueue(op, id) == dbQueue' = Append(dbQueue, [op |-> op, id |-> id])

CreatesQueued == Cardinality({i \in 1..Len(dbQueue) : dbQueue[i].op = "create"})

\* router.post('/'): builds the INSERT and hands it to db.query
PostVisitor ==
  /\ InFlight < MaxInFlight
  /\ nextId + CreatesQueued <= MaxRows
  /\ Enqueue("create", <<>>)
  /\ done' = NoneDone
  /\ sent' = NoResponse
  /\ UNCHANGED <<visitors, nextId, encoding>>
  /\ UNCHANGED httpVars

\* router.put('/:id'): builds the UPDATE and hands it to db.query
PutVisitor ==
  /\ InFlight < MaxInFlight
  /\ \E id \in ParamIds : Enqueue("update", id)
  /\ done' = NoneDone
  /\ sent' = NoResponse
  /\ UNCHANGED <<visitors, nextId, encoding>>
  /\ UNCHANGED httpVars

\* router.put('/:id/status')
PutStatus ==
  /\ InFlight < MaxInFlight
  /\ \E id \in ParamIds : Enqueue("toggle", id)
  /\ done' = NoneDone
  /\ sent' = NoResponse
  /\ UNCHANGED <<visitors, nextId, encoding>>
  /\ UNCHANGED httpVars

\* router.get('/signout/:id')
GetSignout ==
  /\ InFlight < MaxInFlight
  /\ \E id \in ParamIds : Enqueue("signout", id)
  /\ done' = NoneDone
  /\ sent' = NoResponse
  /\ UNCHANGED <<visitors, nextId, encoding>>
  /\ UNCHANGED httpVars

\* mutant: issuing a card also redeems the token
GetCard_Redeems ==
  /\ InFlight < MaxInFlight
  /\ \E id \in CardIds :
       /\ encoding' = encoding \cup {[op |-> "card", id |-> id, text |-> QrText(id), num |-> 0]}
       /\ visitors' = [v \in DOMAIN visitors |->
                         IF v = SqlToNumber(id)
                         THEN [visitors[v] EXCEPT !.qr_status = "used"] ELSE visitors[v]]
  /\ done' = NoneDone
  /\ sent' = NoResponse
  /\ UNCHANGED <<nextId, dbQueue>>
  /\ UNCHANGED httpVars

\* router.get('/:id/card'): starts the encoding, no db.query
GetCard ==
  /\ InFlight < MaxInFlight
  /\ \E id \in CardIds :
       encoding' = encoding \cup {[op |-> "card", id |-> id, text |-> QrText(id), num |-> 0]}
  /\ done' = NoneDone
  /\ sent' = NoResponse
  /\ UNCHANGED <<visitors, nextId, dbQueue>>
  /\ UNCHANGED httpVars

\* the values the handler bound to the statement: the twelve body fields and
\* req.file?.filename (absent: null for INSERT, no image = ? for UPDATE).
\* They influence nothing until the statement runs, so they are drawn when
\* it runs.
BoundValues(q, varied) ==
  IF q.op \in {"create", "update"} /\ varied
  THEN {Values(d, f) : d \in Details, f \in Files \cup {NULL}}
  ELSE {Values(DefaultDetails, NULL)}

\* mutant: a successful redemption consumes the row
ExecTable_DeletesRedeemed(q, vals) ==
  IF q.op = "create"
  THEN [v \in DOMAIN visitors \cup {nextId} |->
          IF v = nextId THEN InsertRow(vals) ELSE visitors[v]]
  ELSE IF q.op = "signout"
  THEN [v \in DOMAIN visitors \ MatchingIds(q.id) |-> visitors[v]]
  ELSE [v \in DOMAIN visitors |->
          IF v \in MatchingIds(q.id)
          THEN StatementRow(visitors[v], q.op, vals) ELSE visitors[v]]

\* the table after the statement q ran without error
ExecTable(q, vals) ==
  IF q.op = "create"
  THEN [v \in DOMAIN visitors \cup {nextId} |->
          IF v = nextId THEN InsertRow(vals) ELSE visitors[v]]
  ELSE [v \in DOMAIN visitors |->
          IF v \in MatchingIds(q.id)
          THEN StatementRow(visitors[v], q.op, vals) ELSE visitors[v]]

\* what MySQL reports for it
ExecResult(q, vals) ==
  IF q.op = "create"
  THEN [affectedRows |-> 1, changedRows |-> 0, insertId |-> nextId]
  ELSE [affectedRows |-> Cardinality(MatchingIds(q.id)),
        changedRows |-> Cardinality({v \in MatchingIds(q.id) :
                                       StatementRow(visitors[v], q.op, vals) # visitors[v]}),
        insertId |-> 0]

SignoutPage(id) == <<"Visitor ID ">> \o id \o <<" signed out successfully. QR is now invalid.">>

\* mutant: the callbacks answer 404 when the statement matched no row
CallbackResponse_NotFound(q, err, result) ==
  IF err THEN Response(500, "error", <<>>, 0)
  ELSE IF q.op # "create" /\ result.affectedRows = 0
       THEN Response(404, "not found", <<>>, 0)
  ELSE CASE q.op = "update" -> Response(200, "Visitor updated successfully", <<>>, 0)
         [] q.op = "toggle" -> Response(200, "Status toggled", <<>>, 0)
         [] q.op = "signout" -> Response(200, "signed out", SignoutPage(q.id), 0)
         [] q.op = "create" -> NoResponse

\* mutant: the sign-out callback reports a redemption that changed nothing
CallbackResponse_AlreadyRedeemed(q, err, result) ==
  IF err THEN Response(500, "error", <<>>, 0)
  ELSE CASE q.op = "update" -> Response(200, "Visitor updated successfully", <<>>, 0)
         [] q.op = "toggle" -> Response(200, "Status toggled", <<>>, 0)
         [] q.op = "signout" ->
              IF result.changedRows = 0
              THEN Response(409, "already redeemed", <<>>, 0)
              ELSE Response(200, "signed out", SignoutPage(q.id), 0)
         [] q.op = "create" -> NoResponse

\* mutant: the callbacks do not look at err
CallbackResponse_IgnoresErr(q, err, result) ==
  CASE q.op = "update" -> Response(200, "Visitor updated successfully", <<>>, 0)
    [] q.op = "toggle" -> Response(200, "Status toggled", <<>>, 0)
    [] q.op = "signout" -> Response(200, "signed out", SignoutPage(q.id), 0)
    [] q.op = "create" -> NoResponse

\* the response a db.query callback (err, result) writes
\* (every callback starts: if (err) return res.status(500).send(err))
CallbackResponse(q, err, result) ==
  IF err THEN Response(500, "error", <<>>, 0)
  ELSE CASE q.op = "update" -> Response(200, "Visitor updated successfully", <<>>, 0)
         [] q.op = "toggle" -> Response(200, "Status toggled", <<>>, 0)
         [] q.op = "signout" -> Response(200, "signed out", SignoutPage(q.id), 0)
         [] q.op = "create" -> NoResponse

\* the QR encodings in progress after a db.query callback: the create
\* callback goes on to await the encoding of the new id before it answers
CallbackEncoding(q, err, result) ==
  IF q.op = "create" /\ ~err
  THEN encoding \cup {[op |-> "create", id |-> DecimalString(result.insertId),
                       text |-> QrText(DecimalString(result.insertId)),
                       num |-> result.insertId]}
  ELSE encoding

\* the connection runs the statement at the head of its queue and calls the
\* statement's callback with (err, result): either the statement fails (no
\* row changes) or it takes effect as one atomic statement.  Nothing of the
\* process can run between the arrival of the result and the callback.
DbCompleteWith(varied) ==
  /\ dbQueue # <<>>
  /\ LET q == Head(dbQueue) IN
       \/ /\ UNCHANGED <<visitors, nextId>>
          /\ done' = Outcome(q.op, q.id, TRUE, NoResult)
          /\ sent' = CallbackResponse(q, TRUE, NoResult)
          /\ encoding' = CallbackEncoding(q, TRUE, NoResult)
       \/ \E vals \in BoundValues(q, varied) :
            /\ visitors' = ExecTable(q, vals)
            /\ nextId' = IF q.op = "create" THEN nextId + 1 ELSE nextId
            /\ done' = Outcome(q.op, q.id, FALSE, ExecResult(q, vals))
            /\ sent' = CallbackResponse(q, FALSE, ExecResult(q, vals))
            /\ encoding' = CallbackEncoding(q, FALSE, ExecResult(q, vals))
  /\ dbQueue' = Tail(dbQueue)
  /\ UNCHANGED httpVars

\* the response written when QRCode.toDataURL finishes: card answers 500 on
\* failure; in the create callback the awaited promise rejects and nothing
\* is written
EncodeResponseOn(job, ok) ==
  IF ok
  THEN Response(200, "qr", ToDataURL(job.text), job.num)
  ELSE IF job.op = "card" THEN Response(500, "error", <<>>, 0)
  ELSE NoResponse

EncodeResponse(job) == EncodeResponseOn(job, EncodeOk(job.text))

\* QRCode.toDataURL finishes for one pending job, with the outcome ok
EncodeFinish(job, ok) ==
  /\ encoding' = encoding \ {job}
  /\ done' = Outcome(IF job.op = "card" THEN "card" ELSE "createQr", job.id,
                     ~ok, NoResult)
  /\ sent' = EncodeResponseOn(job, ok)
  /\ UNCHANGED <<visitors, nextId, dbQueue>>
  /\ UNCHANGED httpVars

EncodeDone == \E job \in encoding : EncodeFinish(job, EncodeOk(job.text))

\* QRCode.toDataURL fails on a text it could have encoded (the encoder
\* throws or rejects for a reason other than the text's length)
EncodeFault == \E job \in encoding : EncodeOk(job.text) /\ EncodeFinish(job, FALSE)

\* requests whose bodies are all alike
DbComplete == DbCompleteWith(FALSE)

\* requests with every body and upload of Details and Files
DbCompleteVaried == DbCompleteWith(TRUE)

Next ==
  \/ PostVisitor
  \/ PutVisitor
  \/ PutStatus
  \/ GetSignout
  \/ GetCard
  \/ DbComplete
  \/ EncodeDone

Spec == Init /\ [][Next]_vars

NextVaried ==
  \/ PostVisitor
  \/ PutVisitor
  \/ PutStatus
  \/ GetSignout
  \/ GetCard
  \/ DbCompleteVaried
  \/ EncodeDone

\* the same program with the descriptive columns and the image varying
SpecVaried == Init /\ [][NextVaried]_vars

NextFault ==
  \/ PostVisitor
  \/ PutVisitor
  \/ PutStatus
  \/ GetSignout
  \/ GetCard
  \/ DbComplete
  \/ EncodeDone
  \/ EncodeFault

\* the same program with an encoder that may fail on any text
SpecFault == Init /\ [][NextFault]_vars

TypeOK ==
  /\ \A v \in DOMAIN visitors :
       /\ visitors[v].qr_status \in {"unused", "used"}
       /\ visitors[v].status \in {0, 1}
  /\ DOMAIN visitors = 1..(nextId - 1)
  /\ nextId \in 1..(MaxRows + 1)
  /\ InFlight <= MaxInFlight

\* ----------------------------------------------------------------- claims
\* the sign-out confirmation page for an id
Confirmation(id) == Response(200, "signed out", SignoutPage(id), 0)

\* the last step completed RedeemToken for this id without a store error
Redeemed(out, id) == out.op = "signout" /\ ~out.err /\ out.id = id

\* C1: qr_status is monotonic: in every step of every interleaving of the
\* visitor operations, a visitor whose qr_status is 'used' still exists and
\* is still 'used' afterwards (so unused -> used happens at most once).
C1_QrStatusMonotonic ==
  [][\A v \in DOMAIN visitors :
       visitors[v].qr_status = "used"
         => (v \in DOMAIN visitors' /\ visitors'[v].qr_status = "used")]_vars

\* an update of a visitor that is already 'used' has completed
C1_Witness ==
  \E v \in DOMAIN visitors :
    /\ visitors[v].qr_status = "used"
    /\ done.op = "update" /\ ~done.err /\ done.id = DecimalString(v)
    /\ done.affectedRows = 1

\* C2: when RedeemToken(v) completes without a store error on an existing
\* visitor v, the row was matched whatever its prior qr_status and v's
\* qr_status is 'used'.
C2_RedeemMarksUsed ==
  [][\A v \in DOMAIN visitors :
       Redeemed(done', DecimalString(v))
         => (done'.affectedRows = 1 /\ visitors'[v].qr_status = "used")]_vars

\* a first redemption has completed: the row changed from 'unused' to 'used'
C2_Witness ==
  \E v \in DOMAIN visitors :
    /\ Redeemed(done, DecimalString(v))
    /\ done.changedRows = 1
    /\ visitors[v].qr_status = "used"

\* C3: re-redemption is idempotent and silent: every RedeemToken that
\* completes without a store error answers with the same confirmation page,
\* also when the visitor was already 'used', and then the table is the same
\* after the second redemption as after the first.
C3_ReRedeemIdempotent ==
  [][\A id \in ParamIds :
       Redeemed(done', id)
         => /\ sent' = Confirmation(id)
            /\ (\E v \in DOMAIN visitors :
                  DecimalString(v) = id /\ visitors[v].qr_status = "used")
                 => (visitors' = visitors /\ nextId' = nextId)]_vars

\* a redemption of an already 'used' visitor completed and was confirmed
C3_Witness ==
  /\ done.op = "signout" /\ ~done.err
  /\ done.affectedRows = 1 /\ done.changedRows = 0
  /\ sent = Confirmation(done.id)

\* C4: RedeemToken on an id with no visitor row answers with the success
\* confirmation and leaves the table unchanged: no row created, none modified.
C4_RedeemMissingNoChange ==
  [][\A id \in ParamIds :
       (Redeemed(done', id) /\ ~(\E v \in DOMAIN visitors : DecimalString(v) = id))
         => (sent' = Confirmation(id) /\ visitors' = visitors /\ nextId' = nextId)]_vars

\* a redemption of an id without a row completed while other rows exist
C4_Witness ==
  /\ done.op = "signout" /\ ~done.err
  /\ done.affectedRows = 0
  /\ SqlToNumber(done.id) \notin DOMAIN visitors
  /\ visitors # <<>>
  /\ sent = Confirmation(done.id)

\* a RedeemToken completes while another one for the same id is still waiting,
\* or right after another one for the same id completed (both were in flight)
RedeemRace(id) ==
  \/ \E i \in 1..Len(dbQueue') : dbQueue'[i] = [op |-> "signout", id |-> id]
  \/ (dbQueue # <<>> /\ dbQueue' = Tail(dbQueue) /\ Redeemed(done, id))

\* C5: no exclusivity: of two RedeemToken requests for the same id in flight
\* together, each one that completes without a store error is answered with
\* the success confirmation, never with a conflict, and the visitor is 'used'.
C5_NoExclusivity ==
  [][\A id \in ParamIds :
       (Redeemed(done', id) /\ RedeemRace(id))
         => /\ sent'.code = 200
            /\ sent' = Confirmation(id)
            /\ \A v \in DOMAIN visitors' :
                 DecimalString(v) = id => visitors'[v].qr_status = "used"]_vars

\* the first of two concurrent redemptions of an 'unused' visitor succeeded
\* and the second is still waiting on the connection
C5_Witness ==
  /\ done.op = "signout" /\ ~done.err /\ done.changedRows = 1
  /\ dbQueue # <<>>
  /\ Head(dbQueue) = [op |-> "signout", id |-> done.id]
  /\ sent = Confirmation(done.id)

\* C6: ToggleCheckInStatus on an existing visitor flips its boolean status,
\* a second application gives back the original row, and it changes the
\* qr_status of no visitor.
C6_ToggleInvolution ==
  [][(done'.op = "toggle" /\ ~done'.err)
       => /\ DOMAIN visitors' = DOMAIN visitors
          /\ \A v \in DOMAIN visitors :
               /\ visitors'[v].qr_status = visitors[v].qr_status
               /\ DecimalString(v) = done'.id
                    => /\ visitors[v].status \in {0, 1}
                       /\ visitors'[v].status = 1 - visitors[v].status
                       /\ StatementRow(visitors'[v], "toggle", Values(NULL, NULL))
                            = visitors[v]]_vars

\* a toggle completed that brought a visitor back to the status it was
\* created with: the flag has been flipped twice
C6_Witness ==
  \E v \in DOMAIN visitors :
    /\ done.op = "toggle" /\ ~done.err /\ done.id = DecimalString(v)
    /\ done.changedRows = 1
    /\ visitors[v].status = StatusDefault

\* the rows redeem and toggle make of a set of rows
RedeemOrToggle(rows) ==
  rows \cup {SignoutRow(r) : r \in rows} \cup {ToggleRow(r) : r \in rows}

\* the (qr_status, status) pairs a new visitor reaches by redeem and toggle
ReachablePairs ==
  LET start == {InsertRow(Values(DefaultDetails, NULL))}
  IN {<<r.qr_status, r.status>> : r \in RedeemOrToggle(RedeemOrToggle(start))}

\* C7: qr_status and status are independent: RedeemToken leaves the status
\* of every visitor unchanged, and a visitor reaches all four combinations
\* of qr_status and status by sequences of redeem and toggle.
C7_Independent ==
  [][/\ done'.op = "signout"
          => /\ DOMAIN visitors' = DOMAIN visitors
             /\ \A v \in DOMAIN visitors : visitors'[v].status = visitors[v].status
     /\ ReachablePairs = {"unused", "used"} \X {0, 1}]_vars

\* a redemption completed on a visitor that is checked out: 'used' with the
\* status flipped, the combination that takes both operations
C7_Witness ==
  \E v \in DOMAIN visitors :
    /\ Redeemed(done, DecimalString(v))
    /\ done.changedRows = 1
    /\ visitors[v].qr_status = "used"
    /\ visitors[v].status = 1 - StatusDefault

\* the last step started a card request
CardStarted == \E job \in encoding' \ encoding : job.op = "card"

\* C8: IssueToken (GET /:id/card) has no effect on the store on its success
\* path or on its encoding-failure path: it adds no statement to the
\* connection and changes no row, and it answers with the token of the id
\* whether or not a row with that id exists (500 when the encoding fails).
C8_CardNoEffect ==
  [][(CardStarted \/ done'.op = "card")
       => /\ visitors' = visitors
          /\ nextId' = nextId
          /\ dbQueue' = dbQueue
          /\ done'.op = "card"
               => IF EncodeOk(QrText(done'.id))
                  THEN ~done'.err /\ sent' = Response(200, "qr", ToDataURL(QrText(done'.id)), 0)
                  ELSE done'.err /\ sent'.code = 500]_vars

\* a token was returned for an id that names no row, with rows in the table
C8_Witness ==
  /\ done.op = "card" /\ ~done.err
  /\ sent.code = 200 /\ sent.kind = "qr"
  /\ SqlToNumber(done.id) \notin DOMAIN visitors
  /\ visitors # <<>>

\* decoding the token of every id gives the id back, as text and as the
\* number the store compares with, and distinct ids have distinct tokens
TokenRoundTrip ==
  /\ \A v \in 0..MaxTokenId :
       /\ TokenId(ScanDataURL(ToDataURL(QrText(DecimalString(v))))) = DecimalString(v)
       /\ SqlToNumber(TokenId(QrText(DecimalString(v)))) = v
  /\ \A v, w \in 0..MaxTokenId :
       QrText(DecimalString(v)) = QrText(DecimalString(w)) => v = w

\* C9: token round trip: the text encoded for visitor id v, at creation and
\* at GET /:id/card, is a redemption URL whose final path segment after
\* '/signout/' is exactly v; decoding gives v, distinct ids give distinct
\* tokens, and redeeming the decoded id marks visitor v and no other 'used'.
C9_TokenRoundTrip ==
  [][/\ TokenRoundTrip
     /\ \A v \in DOMAIN visitors' \ DOMAIN visitors :
          \E job \in encoding' \ encoding :
            /\ job.op = "create" /\ job.num = v
            /\ TokenId(job.text) = DecimalString(v)
     /\ \A job \in encoding \ encoding' :
          EncodeOk(job.text)
            => /\ sent'.kind = "qr"
               /\ TokenId(ScanDataURL(sent'.text)) = job.id
               /\ job.op = "create" => sent'.num = SqlToNumber(job.id)
     /\ \A v \in DOMAIN visitors :
          Redeemed(done', TokenId(QrText(DecimalString(v))))
            => /\ visitors'[v].qr_status = "used"
               /\ \A w \in DOMAIN visitors \ {v} : visitors'[w] = visitors[w]]_vars

\* the create request of the second visitor was answered with a token that
\* decodes to its id
C9_Witness ==
  /\ done.op = "createQr" /\ ~done.err
  /\ sent.num = 2
  /\ 2 \in DOMAIN visitors
  /\ TokenId(ScanDataURL(sent.text)) = DecimalString(2)

\* C10: every row the create operation produces has qr_status 'unused' in
\* the state right after its creation (CheckedIn); the value is the column
\* default, the INSERT supplies none.
C10_CreatedUnused ==
  (done.op = "create" /\ ~done.err)
    => /\ done.insertId \in DOMAIN visitors
       /\ visitors[done.insertId].qr_status = "unused"
       /\ visitors[done.insertId].qr_status = QrStatusDefault

\* a second visitor was just created 'unused' while the first one is 'used'
C10_Witness ==
  /\ done.op = "create" /\ ~done.err /\ done.insertId = 2
  /\ visitors[2].qr_status = "unused"
  /\ visitors[1].qr_status = "used"

\* C11: when the store update of RedeemToken fails, the request ends with
\* the one 500 response and never with the confirmation page, the statement
\* is not put on the connection again, and no row changes.
C11_RedeemStoreError ==
  [][(done'.op = "signout" /\ done'.err)
       => /\ sent'.code = 500
          /\ sent' # Confirmation(done'.id)
          /\ dbQueue' = Tail(dbQueue)
          /\ encoding' = encoding
          /\ visitors' = visitors
          /\ nextId' = nextId]_vars

\* the redemption of an existing 'unused' visitor failed in the store and
\* was answered 500; the visitor is still 'unused'
C11_Witness ==
  \E v \in DOMAIN visitors :
    /\ done.op = "signout" /\ done.err /\ done.id = DecimalString(v)
    /\ visitors[v].qr_status = "unused"
    /\ sent.code = 500

\* C12: every request that hits a store error or an encoding error ends with
\* a failure response; when the encoding fails during visitor creation the
\* caller gets an error response, so no row stays persisted without a
\* reported outcome.
C12_ErrorsSurfaced ==
  done.err =>
    /\ sent.code = 500
    /\ (done.op = "createQr" =>
          \/ sent # NoResponse
          \/ SqlToNumber(done.id) \notin DOMAIN visitors)

\* ---------------------------------------------------------- HTTP routing
\* path segments, as sequences of characters
SegApi == <<"a", "p", "i">>
SegVisitors == <<"v", "i", "s", "i", "t", "o", "r", "s">>
SegCard == <<"c", "a", "r", "d">>
SegStatus == <<"s", "t", "a", "t", "u", "s">>
SegEmployees == <<"e", "m", "p", "l", "o", "y", "e", "e", "s">>
SegDesignations == <<"d", "e", "s", "i", "g", "n", "a", "t", "i", "o", "n", "s">>
SegOpen == <<"o", "p", "e", "n">>
SegCompanies == <<"c", "o", "m", "p", "a", "n", "i", "e", "s">>
SegDepartments == <<"d", "e", "p", "a", "r", "t", "m", "e", "n", "t", "s">>
SegUpload == <<"u", "p", "l", "o", "a", "d">>

\* a route parameter (':id', ':companyId', ...) in a route path
Param == <<":">>

Route(method, path, handler) == [method |-> method, path |-> path, handler |-> handler]

\* the routes of the visitors router, in the order they are registered
VisitorsRoutes ==
  << Route("GET", <<>>, "visitors.list"),
     Route("GET", <<Param>>, "visitors.get"),
     Route("POST", <<>>, "visitors.create"),
     Route("PUT", <<Param>>, "visitors.update"),
     Route("PUT", <<Param, SegStatus>>, "visitors.status"),
     Route("GET", <<Param, SegCard>>, "visitors.card"),
     Route("GET", <<SignoutSegment, Param>>, "visitors.signout") >>

CompanyRoutes ==
  << Route("GET", <<>>, "company.list"),
     Route("GET", <<Param>>, "company.get"),
     Route("POST", <<>>, "company.create"),
     Route("PUT", <<Param>>, "company.update") >>

DepartmentRoutes ==
  << Route("GET", <<>>, "department.list"),
     Route("GET", <<Param>>, "department.get"),
     Route("POST", <<>>, "department.create"),
     Route("PUT", <<Param>>, "department.update") >>

OpenRoutes ==
  << Route("GET", <<SegCompanies>>, "open.companies"),
     Route("GET", <<SegDepartments>>, "open.departments") >>

DesignationRoutes ==
  << Route("GET", <<>>, "designation.list"),
     Route("GET", <<Param>>, "designation.get"),
     Route("GET", <<SegDepartments, Param>>, "designation.departments"),
     Route("POST", <<>>, "designation.create"),
     Route("PUT", <<Param>>, "designation.update") >>

EmployeeRoutes ==
  << Route("GET", <<>>, "employees.list"),
     Route("GET", <<Param>>, "employees.get"),
     Route("POST", <<>>, "employees.create"),
     Route("PUT", <<Param>>, "employees.update"),
     Route("DELETE", <<Param>>, "employees.delete"),
     Route("GET", <<SegDepartments, Param>>, "employees.departments"),
     Route("GET", <<SegDesignations, Param>>, "employees.designations") >>

UploadRoutes == << Route("POST", <<SegUpload>>, "upload.upload") >>

\* app.get('/')
RootRoutes == << Route("GET", <<>>, "root") >>

Mount(path, routes) == [path |-> path, routes |-> routes]

\* the application's stack in server.js, in the order of the app.use calls:
\* the visitors router is not among the routers required and mounted
AppStack ==
  << Mount(<<SegApi, SegEmployees>>, EmployeeRoutes),
     Mount(<<SegApi, SegDesignations>>, DesignationRoutes),
     Mount(<<SegApi, SegOpen>>, OpenRoutes),
     Mount(<<SegCompanies>>, CompanyRoutes),
     Mount(<<SegApi, SegDepartments>>, DepartmentRoutes),
     Mount(<<SegApi>>, UploadRoutes),
     Mount(<<>>, RootRoutes) >>

NotFound == "404"

\* mutant: a route matches every path its own path is a prefix of
PathMatches_Prefix(pattern, segs) ==
  /\ Len(pattern) <= Len(segs)
  /\ \A i \in 1..Len(pattern) : pattern[i] = Param \/ pattern[i] = segs[i]

\* a route path matches a request path segment by segment; a parameter
\* matches any one segment
PathMatches(pattern, segs) ==
  /\ Len(pattern) = Len(segs)
  /\ \A i \in 1..Len(pattern) : pattern[i] = Param \/ pattern[i] = segs[i]

\* a router runs the first registered route that matches method and path
RouterHandler(routes, method, segs) ==
  LET hits == {i \in 1..Len(routes) :
                 routes[i].method = method /\ PathMatches(routes[i].path, segs)}
  IN  IF hits = {} THEN NotFound
      ELSE routes[CHOOSE i \in hits : \A j \in hits : i <= j].handler

\* app.use(path, router): the router sees the paths under the mount path,
\* with the mount path stripped
Mounted(mount, segs) ==
  /\ Len(mount.path) <= Len(segs)
  /\ SubSeq(segs, 1, Len(mount.path)) = mount.path

RECURSIVE DispatchFrom(_, _, _)
DispatchFrom(i, method, segs) ==
  IF i > Len(AppStack) THEN NotFound
  ELSE LET mount == AppStack[i]
           h == IF Mounted(mount, segs)
                THEN RouterHandler(mount.routes, method,
                                   SubSeq(segs, Len(mount.path) + 1, Len(segs)))
                ELSE NotFound
       IN  IF h # NotFound THEN h ELSE DispatchFrom(i + 1, method, segs)

\* the handler the running server gives a request, or 404
Dispatch(method, segs) == DispatchFrom(1, method, segs)

\* the path of a URL: its segments after scheme, empty segment and host
UrlPath(url) == SubSeq(Segments(url), 4, Len(Segments(url)))

Methods == {"GET", "POST", "PUT", "DELETE"}

\* the paths inside a router that are asked for
SubPaths ==
  {<<>>, <<SegUpload>>}
    \cup {<<id>> : id \in ParamIds}
    \cup {<<id, SegStatus>> : id \in ParamIds}
    \cup {<<id, SegCard>> : id \in ParamIds \cup {SignoutSegment}}
    \cup {<<SignoutSegment, id>> : id \in ParamIds}

Prefixes == {<<SegApi, SegVisitors>>, <<SegVisitors>>, <<SegApi>>, <<SegCompanies>>, <<>>}

Paths == {p \o s : p \in Prefixes, s \in SubPaths}

\* req.headers['authorization'], split at the blanks; <<>> when absent
AuthHeaders == {<<>>, <<"Bearer">>, <<"Bearer", "good">>, <<"Bearer", "bad">>}

\* the tokens jwt.verify accepts under JWT_SECRET
ValidTokens == {"good"}

\* mutant: token enforcement switched on
EnforceToken_On == TRUE

\* const enforceToken
EnforceToken == FALSE

GuardOutcome(outcome, status, message, readHeader) ==
  [outcome |-> outcome, status |-> status, message |-> message, readHeader |-> readHeader]

VerifyTokenWith(enforce, auth) ==
  IF ~enforce THEN GuardOutcome("next", 0, "", FALSE)
  ELSE LET token == IF Len(auth) >= 2 THEN auth[2] ELSE "" IN
       IF token = ""
       THEN GuardOutcome("respond", 401, "Access Denied. No token provided.", TRUE)
       ELSE IF token \in ValidTokens
            THEN GuardOutcome("next", 0, "", TRUE)
            ELSE GuardOutcome("respond", 401, "Invalid Token", TRUE)

verifyToken(auth) == VerifyTokenWith(EnforceToken, auth)

\* a request arrives and the application dispatches it
ReceiveRequest ==
  /\ \E method \in Methods, path \in Paths, auth \in AuthHeaders :
       /\ request' = [method |-> method, path |-> path, auth |-> auth]
       /\ routed' = Dispatch(method, path)
  /\ guard' = NotCalled
  /\ UNCHANGED <<visitors, nextId, dbQueue, encoding, done, sent>>

\* verifyToken is called as a middleware on the request
CallVerifyToken ==
  /\ request # NoRequest
  /\ guard = NotCalled
  /\ guard' = verifyToken(request.auth)
  /\ UNCHANGED <<request, routed>>
  /\ UNCHANGED <<visitors, nextId, dbQueue, encoding, done, sent>>

NextHttp ==
  \/ ReceiveRequest
  \/ CallVerifyToken

\* the routing of requests by the application, and the authorization check
SpecHttp == Init /\ [][NextHttp]_vars

\* the requests for the two token routes the QR flow needs
TokenRequest(handler) ==
  /\ request.method = "GET"
  /\ \E id \in ParamIds :
       \/ handler = "visitors.signout" /\ request.path = UrlPath(QrText(id))
       \/ handler = "visitors.card" /\ request.path = <<SegApi, SegVisitors, id, SegCard>>

\* C13: the running server routes GET /api/visitors/signout/:id to the
\* sign-out handler and GET /api/visitors/:id/card to the card handler.
C13_VisitorsMounted ==
  /\ TokenRequest("visitors.signout") => routed = "visitors.signout"
  /\ TokenRequest("visitors.card") => routed = "visitors.card"

\* C15: whatever the Authorization header, verifyToken calls next(), never
\* answers 401 and never reads the header.
C15_AlwaysAllows ==
  guard # NotCalled =>
    /\ guard.outcome = "next"
    /\ guard.status # 401
    /\ ~guard.readHeader

C15_Witness ==
  /\ request.auth = <<"Bearer", "bad">>
  /\ guard.outcome = "next"

\* the rows one statement of the router can leave in place of a row
RowSuccessors(row) ==
  {row} \cup {StatementRow(row, op, Values(d, f)) :
                op \in {"update", "toggle", "signout"}, d \in Details, f \in Files \cup {NULL}}

\* C14: a visitor row that exists under id v exists under id v after every
\* step of every operation (nothing deletes a visitor), and what is stored
\* under v afterwards is that same row, as left by at most one statement
\* (no operation moves a row to another id).
C14_VisitorsPersist ==
  [][\A v \in DOMAIN visitors :
       /\ v \in DOMAIN visitors'
       /\ visitors'[v] \in RowSuccessors(visitors[v])]_vars

C14_Witness ==
  /\ Cardinality(DOMAIN visitors) >= 2
  /\ done.op = "signout" /\ ~done.err /\ done.changedRows = 1
  /\ \E v \in DOMAIN visitors : visitors[v].qr_status = "unused"

\* two RedeemToken calls for id were on the connection together against a
\* fresh 'unused' row: the first changed the row in the last step and the
\* second completes in this step
SimultaneousRedeem(id) ==
  /\ Redeemed(done, id) /\ done.changedRows = 1
  /\ Redeemed(done', id)

\* C16 (as claimed): of two simultaneous RedeemToken calls against a fresh
\* 'unused' row exactly one reports the first redemption and the other
\* reports something else ("already redeemed"), and qr_status ends 'used'.
C16_ExclusiveRedemption ==
  [][\A id \in ParamIds :
       SimultaneousRedeem(id)
         => /\ sent = Confirmation(id)
            /\ sent' # Confirmation(id)
            /\ \A v \in MatchingIds(id) : visitors'[v].qr_status = "used"]_vars

\* C16 (amended): of two simultaneous RedeemToken calls against a fresh
\* 'unused' row both get the same success confirmation although only the
\* first changed the row; neither is told "already redeemed"; qr_status
\* ends 'used'.
C16_BothReportSuccess ==
  [][\A id \in ParamIds :
       SimultaneousRedeem(id)
         => /\ sent = Confirmation(id)
            /\ sent' = sent
            /\ done'.affectedRows = 1 /\ done'.changedRows = 0
            /\ visitors' = visitors
            /\ \A v \in MatchingIds(id) : visitors'[v].qr_status = "used"]_vars

\* both calls were in flight against a row nothing else had touched; the
\* first has been answered and the second is the only statement waiting
C16_Witness ==
  /\ done.op = "signout" /\ ~done.err /\ done.changedRows = 1
  /\ sent = Confirmation(done.id)
  /\ dbQueue = <<[op |-> "signout", id |-> done.id]>>
  /\ encoding = {}
  /\ \A v \in MatchingIds(done.id) : visitors[v].status = StatusDefault

\* the success message of the toggle and update handlers
SuccessMessage(op) ==
  IF op = "toggle" THEN Response(200, "Status toggled", <<>>, 0)
  ELSE Response(200, "Visitor updated successfully", <<>>, 0)

\* C17: a toggle or an update that completes without a store error is
\* answered with the handler's one success message whether or not a visitor
\* has the id; when none has, the store is left as it was (no row created,
\* no row modified).
C17_NotFoundNotDistinguished ==
  [][(done'.op \in {"toggle", "update"} /\ ~done'.err)
       => /\ sent' = SuccessMessage(done'.op)
          /\ (MatchingIds(done'.id) = {}
                => /\ done'.affectedRows = 0
                   /\ visitors' = visitors
                   /\ nextId' = nextId)]_vars

\* an update of an id no visitor has, answered with success while another
\* visitor exists
C17_Witness ==
  /\ done.op = "update" /\ ~done.err /\ done.affectedRows = 0
  /\ MatchingIds(done.id) = {}
  /\ visitors # <<>>
  /\ sent = SuccessMessage("update")

\* row and other agree outside the twelve descriptive fields and image
SameOutsideUpdate(row, other) ==
  [other EXCEPT !.details = row.details, !.image = row.image] = row

\* C18: a visitor update changes, in the row with the given id, only the
\* twelve descriptive fields, and image only when a file is uploaded:
\* qr_status and status of that row stay, image stays when no file is
\* supplied and becomes the uploaded file otherwise, and every other row
\* stays as it was.
C18_UpdateOnlyDescriptive ==
  [][(done'.op = "update" /\ ~done'.err)
       => /\ DOMAIN visitors' = DOMAIN visitors
          /\ \A v \in DOMAIN visitors :
               IF v \in MatchingIds(done'.id)
               THEN /\ SameOutsideUpdate(visitors[v], visitors'[v])
                    /\ visitors'[v].image # visitors[v].image => visitors'[v].image \in Files
                    /\ \A d \in Details :
                         /\ UpdateRow(visitors[v], Values(d, NULL)).image = visitors[v].image
                         /\ \A f \in Files : UpdateRow(visitors[v], Values(d, f)).image = f
               ELSE visitors'[v] = visitors[v]]_vars

\* an update rewrote the descriptive fields of a redeemed visitor that has
\* an image, next to another visitor
C18_Witness ==
  \E v \in MatchingIds(done.id) :
    /\ done.op = "update" /\ ~done.err /\ done.changedRows = 1
    /\ visitors[v].details # DefaultDetails
    /\ visitors[v].image \in Files
    /\ visitors[v].qr_status = "used"
    /\ Cardinality(DOMAIN visitors) >= 2

\* C19: RedeemToken(v) and ToggleCheckInStatus(v) affect only the row whose
\* id is v: every other visitor w has the same qr_status and status (and
\* the same row) after the operation as before.
C19_OnlyRowV ==
  [][(done'.op \in {"signout", "toggle"})
       => \A w \in DOMAIN visitors :
            DecimalString(w) # done'.id
              => /\ w \in DOMAIN visitors'
                 /\ visitors'[w].qr_status = visitors[w].qr_status
                 /\ visitors'[w].status = visitors[w].status
                 /\ visitors'[w] = visitors[w]]_vars

\* one visitor was redeemed while the other, checked out before, is still
\* 'unused' and checked out
C19_Witness ==
  \E v \in DOMAIN visitors, w \in DOMAIN visitors :
    /\ v # w
    /\ done.op = "signout" /\ ~done.err /\ done.changedRows = 1
    /\ done.id = DecimalString(v)
    /\ visitors[v].qr_status = "used"
    /\ visitors[w].qr_status = "unused" /\ visitors[w].status = 0

\* the partner operation of a redemption or a toggle
Partner(op) == IF op = "signout" THEN "toggle" ELSE "signout"

\* the statement completing in this step runs concurrently with the partner
\* operation on the same id: the partner is still on the connection, or it
\* completed in the step before while this one was waiting
RacesWithPartner ==
  /\ done'.op \in {"signout", "toggle"} /\ ~done'.err
  /\ \/ \E i \in 1..Len(dbQueue') :
          dbQueue'[i] = [op |-> Partner(done'.op), id |-> done'.id]
     \/ (done.op = Partner(done'.op) /\ ~done.err /\ done.id = done'.id)

\* C20: no lost update between redemption and toggle: when RedeemToken(v)
\* and ToggleCheckInStatus(v) run concurrently on one row, each statement
\* writes its own column and keeps the other's, so whichever order the
\* connection runs them in the row ends 'used' with status flipped.
C20_NoLostUpdate ==
  [][RacesWithPartner
       => \A v \in MatchingIds(done'.id) :
            /\ done'.op = "signout"
                 => /\ visitors'[v].qr_status = "used"
                    /\ visitors'[v].status = visitors[v].status
            /\ done'.op = "toggle"
                 => /\ visitors'[v].status = 1 - visitors[v].status
                    /\ visitors'[v].qr_status = visitors[v].qr_status
            /\ (done.op = Partner(done'.op) /\ ~done.err /\ done.id = done'.id)
                 => visitors'[v].qr_status = "used"]_vars

\* both requests are in flight on a fresh row: the redemption has completed
\* and kept the status, the toggle is the statement waiting on the connection
C20_Witness ==
  \E v \in MatchingIds(done.id) :
    /\ done.op = "signout" /\ ~done.err /\ done.changedRows = 1
    /\ dbQueue = <<[op |-> "toggle", id |-> done.id]>>
    /\ visitors[v].qr_status = "used"
    /\ visitors[v].status = StatusDefault

\* the last step completed ToggleCheckInStatus for this id without a store error
Toggled(out, id) == out.op = "toggle" /\ ~out.err /\ out.id = id

\* two ToggleCheckInStatus calls for id were on the connection together:
\* the first completed in the last step and the second completes in this one
SimultaneousToggle(id) == Toggled(done, id) /\ Toggled(done', id)

\* the rows that differ from row at most in status
StatusVariants(row) == {[row EXCEPT !.status = s] : s \in {0, 1}}

\* C21: concurrent toggles lose no update: of two ToggleCheckInStatus calls
\* in flight together on one row both are answered with the success
\* message, each statement negates the status it finds, and the row ends
\* as it was before the first of the two ran.
C21_ConcurrentToggles ==
  [][\A id \in ParamIds :
       SimultaneousToggle(id)
         => /\ sent = SuccessMessage("toggle")
            /\ sent' = SuccessMessage("toggle")
            /\ \A v \in MatchingIds(id) :
                 /\ done.changedRows = 1 /\ done'.changedRows = 1
                 /\ visitors'[v].status = SqlNot(visitors[v].status)
                 /\ \A initial \in StatusVariants(visitors[v]) :
                      ToggleRow(initial) = visitors[v] => visitors'[v] = initial]_vars

\* both toggles are in flight on a row nothing else has touched: the first
\* has checked the visitor out and the second is the statement waiting
C21_Witness ==
  \E v \in MatchingIds(done.id) :
    /\ done.op = "toggle" /\ ~done.err /\ done.changedRows = 1
    /\ sent = SuccessMessage("toggle")
    /\ dbQueue = <<[op |-> "toggle", id |-> done.id]>>
    /\ visitors[v].status = SqlNot(StatusDefault)
    /\ visitors[v].qr_status = QrStatusDefault

\* the index of the route a router runs for a request, 0 when none matches
RouterHit(routes, method, segs) ==
  LET hits == {i \in 1..Len(routes) :
                 routes[i].method = method /\ PathMatches(routes[i].path, segs)}
  IN  IF hits = {} THEN 0 ELSE CHOOSE i \in hits : \A j \in hits : i <= j

\* req.params.id in the handler that runs: the segment at the place of the
\* route's parameter; <<>> when no route runs or the route has no parameter
RouterParam(routes, method, segs) ==
  LET r == RouterHit(routes, method, segs)
      at == IF r = 0 THEN {} ELSE {i \in 1..Len(routes[r].path) : routes[r].path[i] = Param}
  IN  IF at = {} THEN <<>> ELSE segs[CHOOSE i \in at : TRUE]

\* the segments sent in the place of an id
RouteIds == ParamIds \cup {LongId, SegCard, SegStatus, SignoutSegment}

\* the paths asked of the visitors router, relative to its mount point
RouterPaths ==
  {<<>>} \cup {<<a>> : a \in RouteIds} \cup {<<a, b>> : a \in RouteIds, b \in RouteIds}

\* a request reaches the visitors router, which dispatches it
RouterRequest ==
  /\ \E method \in Methods, path \in RouterPaths :
       /\ request' = [method |-> method, path |-> path, auth |-> <<>>]
       /\ routed' = RouterHandler(VisitorsRoutes, method, path)
  /\ guard' = NotCalled
  /\ UNCHANGED <<visitors, nextId, dbQueue, encoding, done, sent>>

NextRouter == RouterRequest

\* the visitors router on its own, given every request path
SpecRouter == Init /\ [][NextRouter]_vars

\* a GET for a path of the form /signout/{id}
SignoutForm == request.method = "GET" /\ Len(request.path) = 2 /\ request.path[1] = SignoutSegment

\* a GET for a path of the form /{id}/card
CardForm == request.method = "GET" /\ Len(request.path) = 2 /\ request.path[2] = SegCard

====
